---- MODULE Spec2Model ----
(***************************************************************************)
(* Model of src/sitemon.sh: the start-up of the script, its SIGTERM trap,  *)
(* the spawning of one `sitemon` per site, the per-site monitoring loop    *)
(* with its inner `log` function, `log_service` and                        *)
(* `send_telegram_message`.                                                *)
(*                                                                         *)
(* Strings of the script are modelled by numbers where the script only     *)
(* stores, prints or compares them:                                        *)
(*   - a timestamp `$(date ...)` is the reading of the clock `now` (>= 1), *)
(*     and the empty string "" is Empty (0);                               *)
(*   - the output of curl's %{http_code} is a number, "000" (no response)  *)
(*     is 0, and an output that is not a number at all is NonNumeric.      *)
(* Every line written by `log` and every call of `send_telegram_message`   *)
(* is an event; out[m] holds the events of the latest step of monitor m,   *)
(* and mout those of the latest step of the main shell, in the order the   *)
(* script produces them.  A file is followed by its first MaxLogLines      *)
(* lines.  The file of a site is named by the site; distinct sites are     *)
(* taken to have distinct file names.                                      *)
(***************************************************************************)
EXTENDS Integers, Sequences, FiniteSets, TLC

VARIABLES
    SITES,            \* sitemon.conf: the configured sites
    interval,         \* sitemon.conf: poll interval in seconds
    disable_telegram, \* sitemon.conf: 0 means notifications enabled
    flush_log_on_start, \* sitemon.conf: 0 means keep the logs at start
    faults,           \* environment: may a log append or a delivery fail
    horizon,          \* the clock reading at which the exploration stops
    files0,           \* the files as they were before the script started
    files,            \* the aggregate log and the per-site logs
    now,              \* the wall clock read by `date`
    mpc,              \* position of the main shell
    exitcode,         \* exit status of the main shell
    sigterm,          \* history: a SIGTERM has been delivered
    mout,             \* events of the latest step of the main shell
    pc,               \* position of each sitemon process
    spawned,          \* history: sitemon processes started for each site
    cancelled,        \* history: what ended each sitemon process
    status,           \* local status: 1 OK, 0 FAIL
    count,            \* local count: consecutive failed checks
    lastOK,           \* local lastOK
    lastFAIL,         \* local lastFAIL
    error_duration,   \* error_duration (not local: one per shell process)
    respcode,         \* local respcode
    out,              \* events of the latest step of each monitor
    prevStatus,       \* history: status at the start of the latest cycle
    prevCount,        \* history: count at the start of the latest cycle
    sinceOK,          \* history: non-200 results since the latest 200 result
    okAt,             \* history: clock reading of the latest 200 result
    alerted           \* history: the monitor has written an ALERT line

conf == <<SITES, interval, disable_telegram, flush_log_on_start, faults,
          horizon, files0>>

main == <<mpc, exitcode, sigterm, mout>>

locals == <<status, count, lastOK, lastFAIL, error_duration, respcode>>

history == <<prevStatus, prevCount, sinceOK, okAt, alerted>>

vars == <<conf, files, now, main, pc, spawned, cancelled, locals, out,
          history>>

\* ---------------------------------------------------------------- bounds
MaxTime == 26        \* clock readings explored with one site
MaxTimeMulti == 3    \* clock readings explored with two sites
MaxTimeSup == 2      \* clock readings explored with every start-up option
MaxTimeFaults == 13  \* clock readings explored with failing writes
MaxTimeLive == 2     \* clock readings explored under fairness
MaxLogLines == 2     \* lines of a file that are followed

TimeCap == horizon

\* ------------------------------------------------------------- constants
Empty == 0           \* the empty string "" of an unset or cleared variable
NonNumeric == -1     \* a curl output that `[ ... -eq 200 ]` cannot read
AlertEvery == 12     \* every 12th consecutive failure raises an ALERT
FailLines == 4       \* failures of one outage that get an ordinary line
InitStatus == 1      \* local status=1
NoExit == -1         \* the main shell has not exited
Codes == {NonNumeric, 0, 200, 204, 500}
Intervals == {5, 10}

\* ------------------------------------------------------ pure operators
\* [ "$respcode" -eq 200 ]: false for every other number, and an error
\* (also false) when the output is not a number
IsOKWide(code) == code \div 100 = 2
IsOK(code) == code # NonNumeric /\ code = 200

\* [ "$count" -lt 4 ], tested before the increment
FailLineDueLe(c) == c <= FailLines
FailLineDue(c) == c < FailLines

\* [ "$((count % 12))" -eq 0 ], tested after the increment
AlertDueGe(c) == c >= AlertEvery
AlertDue(c) == c % AlertEvery = 0

\* count=$((count+1))
NextCountInsideIf(c) == IF c < FailLines THEN c + 1 ELSE c
NextCount(c) == c + 1

\* count=0 in the success branch
CountAfterOKKept(c) == c
CountAfterOK(c) == 0

\* [ "$status" -eq 0 ] and ! [ -z "$lastFAIL" ]: report the recovery
RecoveryDueNoStatus(st, lf) == lf # Empty
RecoveryDue(st, lf) == st = 0 /\ lf # Empty

\* error_duration=$((count * interval)), after the increment
DurationBeforeIncrement(c, iv) == (c - 1) * iv
Duration(c, iv) == c * iv

\* lastFAIL=$(date ...) stands inside the if of the ALERT
LastFailDueAlways(c) == TRUE
LastFailDue(c) == AlertDue(c)

\* [ "$status" -eq 0 ] in log(): mirror the line to Telegram
MirrorAlways(st) == TRUE
MirrorNever(st) == FALSE
Mirror(st) == st = 0

\* `sitemon "$site" "$interval" &`: every monitor is a background subshell,
\* so the non-local error_duration is a variable of that process
ProcShared(m) == CHOOSE s \in SITES : TRUE
Proc(m) == m

\* the trailing `&` of the spawn: the loop never waits for a sitemon
Foreground(m) == \A o \in SITES : pc[o] \in {"idle", "killed"}
Background(m) == TRUE

\* nothing in the loop tests the result of a probe, a log or a send: the
\* next command after the if/else is always the sleep
AfterCycleStrictCode(code, wr, net) ==
    IF code = NonNumeric THEN "killed" ELSE "sleep"
AfterCycleStrictWrite(code, wr, net) ==
    IF wr /\ net THEN "sleep" ELSE "killed"
AfterCycle(code, wr, net) == "sleep"

\* the outcomes an append or a delivery can have
WriteOutcomes == IF faults THEN {TRUE, FALSE} ELSE {TRUE}

\* "$LOG_FILE" and "${LOG_DIR}/${site//\//_}.log"
LOG_FILE == <<"LOG_FILE">>
logfileShared(m) == LOG_FILE
logfile(m) == <<"LOG_DIR", m>>

Paths(sites) == {LOG_FILE} \cup {logfile(m) : m \in sites}


Msg(kind, site, code, dur, ref) ==
    [kind |-> kind, site |-> site, code |-> code, dur |-> dur, ref |-> ref]

\* send_telegram_message: the POST happens only when disable_telegram is 0
send_telegram_messageAlways(message, st) ==
    << [chan |-> "send", st |-> st, at |-> now, msg |-> message,
        posted |-> TRUE, ok |-> TRUE] >>
send_telegram_message(message, st) ==
    << [chan |-> "send", st |-> st, at |-> now, msg |-> message,
        posted |-> (disable_telegram = 0), ok |-> TRUE] >>

\* log(): append to the site's log file, then mirror when status is FAIL
log(message, st) ==
    << [chan |-> "log", st |-> st, at |-> now, msg |-> message,
        posted |-> FALSE, ok |-> TRUE] >>
    \o (IF Mirror(st) THEN send_telegram_message(message, st) ELSE << >>)

\* lines 110-112: the recovery line is logged (and mirrored) first, the
\* "back online" notification is sent after it
RecoveryEventsBackFirst(line, back) == back \o line
RecoveryEvents(line, back) == line \o back

\* log_service(): append to the aggregate log, then send; the main shell
\* has no $status, which reads as the empty string
log_service(message) ==
    << [chan |-> "log", st |-> Empty, at |-> now, msg |-> message,
        posted |-> FALSE, ok |-> TRUE] >>
    \o send_telegram_message(message, Empty)

\* the outcome of every append (wr) and of every delivery (net) of a step
Mark(events, wr, net) ==
    [i \in 1..Len(events) |->
        [events[i] EXCEPT !.ok = IF events[i].chan = "log" THEN wr ELSE net]]

\* the lines of the events that reached their file
Written(events) ==
    LET ls == SelectSeq(events, LAMBDA e : e.chan = "log" /\ e.ok)
    IN [i \in 1..Len(ls) |-> ls[i].msg]

FirstLines(f) == IF Len(f) <= MaxLogLines THEN f ELSE SubSeq(f, 1, MaxLogLines)

\* tee -a FILE: the lines go to the end of the file
TeeAppend(f, lines) == FirstLines(f \o lines)

\* tee FILE and > FILE: the file is emptied when it is opened
TeeOver(f, lines) == FirstLines(lines)

Started == Msg("STARTED", "", 0, 0, 0)
StartedHost == Msg("STARTED_HOST", "", 0, 0, 0)
Shutdown == Msg("SHUTDOWN", "", 0, 0, 0)
Old == Msg("OLD", "", 0, 0, 0)
Blank == Msg("BLANK", "", 0, 0, 0)

\* ---------------------------------------------------------------- init
InitWith(sites, h, flushes, faulty, olds) ==
    /\ SITES = sites
    /\ horizon = h
    /\ flush_log_on_start \in flushes
    /\ faults = faulty
    /\ interval \in Intervals
    /\ disable_telegram \in {0, 1}
    /\ \E old \in olds : files0 = [p \in Paths(sites) |-> old]
    /\ files = files0
    /\ now = 1
    /\ mpc = "startup"
    /\ exitcode = NoExit
    /\ sigterm = FALSE
    /\ mout = << >>
    /\ pc = [m \in sites |-> "idle"]
    /\ spawned = [m \in sites |-> 0]
    /\ cancelled = [m \in sites |-> "no"]
    /\ status = [m \in sites |-> InitStatus]
    /\ count = [m \in sites |-> Empty]
    /\ lastOK = [m \in sites |-> Empty]
    /\ lastFAIL = [m \in sites |-> Empty]
    /\ error_duration = [m \in sites |-> Empty]
    /\ respcode = [m \in sites |-> NonNumeric]
    /\ out = [m \in sites |-> << >>]
    /\ prevStatus = [m \in sites |-> InitStatus]
    /\ prevCount = [m \in sites |-> 0]
    /\ sinceOK = [m \in sites |-> 0]
    /\ okAt = [m \in sites |-> Empty]
    /\ alerted = [m \in sites |-> FALSE]

Init == InitWith({"3di.it/"}, MaxTime, {1}, FALSE, {<<Old>>})

InitMulti ==
    InitWith({"3di.it/", "a.it/b"}, MaxTimeMulti, {1}, FALSE, {<<Old>>})

InitSup ==
    InitWith({"3di.it/", "a.it/b"}, MaxTimeSup, {0, 1}, FALSE,
             {<< >>, <<Old>>})

InitLive ==
    InitWith({"3di.it/", "a.it/b"}, MaxTimeLive, {1}, FALSE, {<<Old>>})

InitFaults == InitWith({"3di.it/"}, MaxTimeFaults, {1}, TRUE, {<<Old>>})

\* ------------------------------------------------- the main shell
\* lines 37-52: the start message, with or without flushing the logs.
\* Without flushing, `log_service ... | tee "$LOG_FILE"` runs two writers
\* of the aggregate log at once: `tee -a` appends the line and `tee`
\* empties the file when it opens it, in either order.
Startup ==
    /\ mpc = "startup"
    /\ mpc' = "trap"
    /\ IF flush_log_on_start = 0
       THEN
         /\ mout' = log_service(Started)
                      \o send_telegram_message(StartedHost, Empty)
         /\ \E truncFirst \in BOOLEAN :
              files' = [files EXCEPT
                 ![LOG_FILE] =
                    IF truncFirst
                    THEN TeeAppend(TeeOver(@, << >>), <<Started>>)
                    ELSE TeeOver(TeeAppend(@, <<Started>>), << >>)]
       ELSE
         /\ mout' = << [chan |-> "log", st |-> Empty, at |-> now,
                        msg |-> Started, posted |-> FALSE, ok |-> TRUE] >>
                    \o send_telegram_message(Started, Empty)
         /\ files' = [p \in Paths(SITES) |->
                        IF p = LOG_FILE
                        THEN TeeOver(files[p], <<Started>>)
                        ELSE TeeOver(files[p], <<Blank>>)]
    /\ UNCHANGED <<conf, now, exitcode, sigterm, pc, spawned, cancelled,
                   locals, out, history>>

\* line 59: trap '...' SIGTERM
SetTrap ==
    /\ mpc = "trap"
    /\ mpc' = "spawn"
    /\ UNCHANGED <<conf, files, now, exitcode, sigterm, mout, pc, spawned,
                   cancelled, locals, out, history>>

\* lines 141-149: sitemon "$site" "$interval" &, and after the last site
\* of the for loop the shell is in `wait`
Spawn(m) ==
    /\ mpc = "spawn"
    /\ pc[m] = "idle"
    /\ Background(m)
    /\ pc' = [pc EXCEPT ![m] = "start"]
    /\ spawned' = [spawned EXCEPT ![m] = @ + 1]
    /\ mpc' = IF \A o \in SITES \ {m} : pc[o] # "idle"
              THEN "wait" ELSE "spawn"
    /\ UNCHANGED <<conf, files, now, exitcode, sigterm, mout, cancelled,
                   locals, out, history>>

\* line 149: wait returns when every child has exited; the script ends
WaitDone ==
    /\ mpc = "wait"
    /\ \A m \in SITES : pc[m] = "killed"
    /\ mpc' = "done"
    /\ exitcode' = 0
    /\ UNCHANGED <<conf, files, now, sigterm, mout, pc, spawned, cancelled,
                   locals, out, history>>

\* the variables of a process that is gone
Gone(f, ms, v) == [m \in SITES |-> IF m \in ms THEN v ELSE f[m]]

EndProcesses(ms, how) ==
    /\ pc' = Gone(pc, ms, "killed")
    /\ cancelled' = Gone(cancelled, ms, how)
    /\ status' = Gone(status, ms, InitStatus)
    /\ count' = Gone(count, ms, Empty)
    /\ lastOK' = Gone(lastOK, ms, Empty)
    /\ lastFAIL' = Gone(lastFAIL, ms, Empty)
    /\ error_duration' = Gone(error_duration, ms, Empty)
    /\ respcode' = Gone(respcode, ms, NonNumeric)
    /\ out' = Gone(out, ms, << >>)
    /\ prevStatus' = Gone(prevStatus, ms, InitStatus)
    /\ prevCount' = Gone(prevCount, ms, 0)
    /\ sinceOK' = Gone(sinceOK, ms, 0)
    /\ okAt' = Gone(okAt, ms, Empty)
    /\ alerted' = Gone(alerted, ms, FALSE)

\* what the trap does after its log_service, in this order
Step(what) ==
    << [chan |-> what, st |-> Empty, at |-> now, msg |-> Shutdown,
        posted |-> FALSE, ok |-> TRUE] >>

ChildrenAsleep == {m \in SITES : pc[m] = "sleep"}
Children == {m \in SITES : pc[m] \notin {"idle", "killed"}}

\* a SIGTERM reaches the main shell.  Before the trap is set it ends the
\* shell.  Afterwards the trap of line 59 runs: log_service, pkill -P $$
\* (which ends every child of the main shell), exit 0
Sigterm ==
    /\ ~sigterm
    /\ mpc \in {"startup", "trap", "spawn", "wait"}
    /\ sigterm' = TRUE
    /\ IF mpc \in {"startup", "trap"}
       THEN /\ mpc' = "dead"
            /\ UNCHANGED <<files, mout, exitcode, pc, cancelled, locals,
                           out, history>>
       ELSE /\ mout' = log_service(Shutdown) \o Step("pkill") \o Step("exit")
            /\ files' = [files EXCEPT
                 ![LOG_FILE] = TeeAppend(@, Written(log_service(Shutdown)))]
            /\ EndProcesses(Children, "pkill")
            /\ mpc' = "done"
            /\ exitcode' = 0
    /\ UNCHANGED <<conf, now, spawned>>

\* ------------------------------------------------- the monitors
\* a signal from outside ends one sitemon process
Kill(m) ==
    /\ pc[m] \notin {"idle", "killed"}
    /\ EndProcesses({m}, "kill")
    /\ UNCHANGED <<conf, files, now, main, spawned>>

\* lines 90-92: log "Monitoring started", count=0
Start(m) ==
    /\ pc[m] = "start"
    /\ \E wr \in WriteOutcomes : \E net \in WriteOutcomes :
        LET events == Mark(log(Msg("START", m, 0, 0, 0), status[m]), wr, net)
        IN /\ out' = [out EXCEPT ![m] = events]
           /\ files' = [files EXCEPT
                          ![logfile(m)] = TeeAppend(@, Written(events))]
    /\ count' = [count EXCEPT ![m] = 0]
    /\ pc' = [pc EXCEPT ![m] = "probe"]
    /\ UNCHANGED <<conf, now, main, spawned, cancelled, status, lastOK,
                   lastFAIL, error_duration, respcode, history>>

\* line 100: respcode=$(curl ...)
Probe(m) ==
    /\ pc[m] = "probe"
    /\ \E code \in Codes :
        /\ respcode' = [respcode EXCEPT ![m] = code]
        /\ sinceOK' = [sinceOK EXCEPT
                         ![m] = IF code = 200 THEN 0 ELSE sinceOK[m] + 1]
        /\ okAt' = [okAt EXCEPT ![m] = IF code = 200 THEN now ELSE @]
    /\ pc' = [pc EXCEPT ![m] = "handle"]
    /\ UNCHANGED <<conf, files, now, main, spawned, cancelled, status, count,
                   lastOK, lastFAIL, error_duration, out, prevStatus,
                   prevCount, alerted>>

\* lines 103-135: the if/else on the response code
Handle(m) ==
    /\ pc[m] = "handle"
    /\ prevStatus' = [prevStatus EXCEPT ![m] = status[m]]
    /\ prevCount' = [prevCount EXCEPT ![m] = count[m]]
    /\ \E wr \in WriteOutcomes : \E net \in WriteOutcomes :
        /\ pc' = [pc EXCEPT ![m] = AfterCycle(respcode[m], wr, net)]
        /\ IF IsOK(respcode[m])
           THEN
             LET recovery ==
                   IF RecoveryDue(status[m], lastFAIL[m])
                   THEN RecoveryEvents(
                          log(Msg("LASTFAIL", m, 0, error_duration[Proc(m)],
                                  lastFAIL[m]), status[m]),
                          send_telegram_message(
                             Msg("BACK", m, 0, error_duration[Proc(m)], 0),
                             status[m]))
                   ELSE << >>
                 events ==
                   Mark(recovery \o log(Msg("OK", m, 0, 0, 0), 1), wr, net)
             IN /\ status' = [status EXCEPT ![m] = 1]
                /\ out' = [out EXCEPT ![m] = events]
                /\ files' = [files EXCEPT
                               ![logfile(m)] = TeeAppend(@, Written(events))]
                /\ lastOK' = [lastOK EXCEPT ![m] = now]
                /\ count' = [count EXCEPT ![m] = CountAfterOK(count[m])]
                /\ UNCHANGED <<lastFAIL, error_duration>>
           ELSE
             LET failline ==
                   IF FailLineDue(count[m])
                   THEN log(Msg("FAIL", m, respcode[m], 0, 0), 0)
                   ELSE << >>
                 c == NextCount(count[m])
                 dur == Duration(c, interval)
                 alert ==
                   IF AlertDue(c)
                   THEN log(Msg("ALERT", m, 0, dur, lastOK[m]), 0)
                   ELSE << >>
                 events == Mark(failline \o alert, wr, net)
             IN /\ status' = [status EXCEPT ![m] = 0]
                /\ count' = [count EXCEPT ![m] = c]
                /\ error_duration' = [error_duration EXCEPT ![Proc(m)] = dur]
                /\ out' = [out EXCEPT ![m] = events]
                /\ files' = [files EXCEPT
                               ![logfile(m)] = TeeAppend(@, Written(events))]
                /\ lastFAIL' = [lastFAIL EXCEPT
                                  ![m] = IF LastFailDue(c) THEN now ELSE @]
                /\ UNCHANGED lastOK
    /\ alerted' = [alerted EXCEPT
                     ![m] = @ \/ \E i \in 1..Len(out'[m]) :
                                    /\ out'[m][i].chan = "log"
                                    /\ out'[m][i].msg.kind = "ALERT"]
    /\ UNCHANGED <<conf, now, main, spawned, cancelled, respcode, sinceOK,
                   okAt>>

\* line 136: sleep "$interval"; the clock moves on while the monitor sleeps
Sleep(m) ==
    /\ pc[m] = "sleep"
    /\ now < TimeCap
    /\ now' = now + 1
    /\ pc' = [pc EXCEPT ![m] = "probe"]
    /\ UNCHANGED <<conf, files, main, spawned, cancelled, locals, out,
                   history>>

Next ==
    \/ Startup
    \/ SetTrap
    \/ WaitDone
    \/ Sigterm
    \/ \E m \in SITES :
        \/ Spawn(m)
        \/ Start(m)
        \/ Probe(m)
        \/ Handle(m)
        \/ Sleep(m)
        \/ Kill(m)

Spec == Init /\ [][Next]_vars

SpecMulti == InitMulti /\ [][Next]_vars

SpecSup == InitSup /\ [][Next]_vars

SpecFaults == InitFaults /\ [][Next]_vars

\* every sitemon is a process of its own: a command that can run does run
AllSites == {"3di.it/", "a.it/b"}

Fairness ==
    \A m \in AllSites :
        /\ WF_vars(Start(m))
        /\ WF_vars(Probe(m))
        /\ WF_vars(Handle(m))
        /\ WF_vars(Sleep(m))

SpecLive == InitLive /\ [][Next]_vars /\ Fairness

TypeOK ==
    /\ interval \in Intervals
    /\ disable_telegram \in {0, 1}
    /\ flush_log_on_start \in {0, 1}
    /\ now \in 1..TimeCap
    /\ mpc \in {"startup", "trap", "spawn", "wait", "done", "dead"}
    /\ exitcode \in {NoExit, 0}
    /\ \A p \in Paths(SITES) : Len(files[p]) <= MaxLogLines
    /\ \A m \in SITES :
        /\ pc[m] \in {"idle", "start", "probe", "handle", "sleep", "killed"}
        /\ spawned[m] \in {0, 1}
        /\ status[m] \in {0, 1}
        /\ count[m] \in 0..TimeCap
        /\ lastOK[m] \in 0..TimeCap
        /\ lastFAIL[m] \in 0..TimeCap
        /\ respcode[m] \in Codes

\* ------------------------------------------------- reading the events
\* the lines of one kind that monitor m wrote in its latest step
Lines(m, kind) ==
    SelectSeq(out[m], LAMBDA e : e.chan = "log" /\ e.msg.kind = kind)

\* the calls of send_telegram_message that monitor m made in its latest step
Sends(m) == SelectSeq(out[m], LAMBDA e : e.chan = "send")

\* the explicit "<site> is back online" notifications of the latest step
BackSends(m) ==
    SelectSeq(out[m], LAMBDA e : e.chan = "send" /\ e.msg.kind = "BACK")

\* monitor m has just run the if/else of a cycle on respcode[m]
CycleDone(m) == pc[m] = "sleep"

\* event i of out[m] is a log line and event i+1 is the same text sent
MirroredAt(m, i) ==
    /\ i < Len(out[m])
    /\ out[m][i + 1].chan = "send"
    /\ out[m][i + 1].msg = out[m][i].msg

\* ---------------------------------------------------------------- C1
\* C1 (as stated): in every cycle the "<site> is back online" notification
\* is sent exactly once if the status went from DOWN to UP and not at all
\* otherwise, and its downtime is the number of failed probes before the
\* success times the poll interval.
C1_RecoveryEveryDownUp ==
    \A m \in SITES :
        CycleDone(m) =>
            /\ Len(BackSends(m)) =
                 IF prevStatus[m] = 0 /\ status[m] = 1 THEN 1 ELSE 0
            /\ \A i \in 1..Len(BackSends(m)) :
                 BackSends(m)[i].msg.dur = prevCount[m] * interval

C3_CountIsTrailingFailures ==
    \A m \in SITES :
        /\ pc[m] \in {"probe", "sleep"} => count[m] = sinceOK[m]
        /\ CycleDone(m) =>
             count[m] = IF respcode[m] = 200 THEN 0 ELSE prevCount[m] + 1

\* a 200 result has just reset a counter that had passed the log window
C3_Witness ==
    \E m \in SITES :
        /\ CycleDone(m)
        /\ respcode[m] = 200
        /\ prevCount[m] = 6
        /\ count[m] = 0

C5_MirrorExactlyWhenDown ==
    \A m \in SITES :
        \A i \in 1..Len(out[m]) :
            /\ (out[m][i].chan = "log" /\ out[m][i].st = 0)
                 => MirroredAt(m, i)
            /\ (out[m][i].chan = "log" /\ out[m][i].st = 1)
                 => ~MirroredAt(m, i)
            /\ out[m][i].chan = "send"
                 => \/ out[m][i].msg.kind = "BACK"
                    \/ /\ i > 1
                       /\ out[m][i - 1].chan = "log"
                       /\ out[m][i - 1].st = 0
                       /\ out[m][i - 1].msg = out[m][i].msg

\* a recovery cycle: a line logged while DOWN and sent, the explicit
\* notification, and the "response OK" line logged while UP and not sent
C5_Witness ==
    \E m \in SITES :
        /\ Len(out[m]) = 4
        /\ out[m][1].chan = "log" /\ out[m][1].st = 0
        /\ out[m][2].chan = "send"
        /\ out[m][3].msg.kind = "BACK"
        /\ out[m][4].chan = "log" /\ out[m][4].st = 1

\* ---------------------------------------------------------------- C6
\* C6 (as stated): a cycle whose probe succeeds while the status is UP
\* changes only lastOK, writes no log line and sends nothing.
C6_UpUpSilent ==
    [][\A m \in SITES :
         (pc[m] = "handle" /\ pc'[m] = "sleep"
            /\ respcode[m] = 200 /\ status[m] = 1)
         => /\ out'[m] = << >>
            /\ lastOK'[m] = now
            /\ status'[m] = status[m]
            /\ count'[m] = count[m]
            /\ lastFAIL'[m] = lastFAIL[m]
            /\ error_duration' = error_duration]_vars

\* C6 (amended): a cycle whose probe succeeds while the status is UP
\* changes only lastOK, writes exactly one line, "<site> response OK", to
\* the site's log and sends nothing.
C6_UpUpOnlyOkLine ==
    [][\A m \in SITES :
         (pc[m] = "handle" /\ pc'[m] = "sleep"
            /\ respcode[m] = 200 /\ status[m] = 1)
         => /\ Len(out'[m]) = 1
            /\ out'[m][1].chan = "log"
            /\ out'[m][1].msg = Msg("OK", m, 0, 0, 0)
            /\ lastOK'[m] = now
            /\ status'[m] = status[m]
            /\ count'[m] = count[m]
            /\ lastFAIL'[m] = lastFAIL[m]
            /\ error_duration' = error_duration]_vars

\* a success after a success: lastOK has moved, the status stayed UP
C6_Witness ==
    \E m \in SITES :
        /\ CycleDone(m)
        /\ respcode[m] = 200
        /\ prevStatus[m] = 1 /\ status[m] = 1
        /\ lastOK[m] = now /\ now > 2
        /\ Len(out[m]) = 1

\* ---------------------------------------------------------------- C7
\* C7: a cycle that starts with status UP and ends with status UP sends
\* nothing to the notification function.
C7_NoSendUpUp ==
    \A m \in SITES :
        (CycleDone(m) /\ prevStatus[m] = 1 /\ status[m] = 1)
            => Sends(m) = << >>

\* an UP to UP cycle of a monitor that has raised an ALERT before
C7_Witness ==
    \E m \in SITES :
        /\ CycleDone(m)
        /\ prevStatus[m] = 1 /\ status[m] = 1
        /\ lastFAIL[m] # Empty
        /\ out[m] # << >>

\* ---------------------------------------------------------------- C8
\* C8: the success branch is taken iff the captured code is exactly 200;
\* every other code, no response ("000") and an unreadable output take
\* the failure branch.
C8_SuccessIffExactly200 ==
    \A m \in SITES :
        CycleDone(m) =>
            /\ respcode[m] = 200
                 => /\ status[m] = 1 /\ count[m] = 0 /\ lastOK[m] = now
                    /\ Len(Lines(m, "OK")) = 1
            /\ respcode[m] # 200
                 => /\ status[m] = 0 /\ count[m] = prevCount[m] + 1
                    /\ Len(Lines(m, "OK")) = 0
                    /\ error_duration[m] = count[m] * interval

\* another 2xx code has just been counted as a failure of an UP site
C8_Witness ==
    \E m \in SITES :
        /\ CycleDone(m)
        /\ respcode[m] = 204
        /\ prevStatus[m] = 1 /\ status[m] = 0
        /\ Len(Lines(m, "FAIL")) = 1

\* ---------------------------------------------------------------- C9
\* C9: at the start and after every cycle the status is 1 (UP) or 0
\* (DOWN), it is DOWN exactly when the most recent probe was non-200 (so
\* UP before the first probe), and it is UP exactly when the counter is 0.
C9_StatusFollowsLastProbe ==
    \A m \in SITES :
        pc[m] \in {"probe", "sleep"} =>
            /\ status[m] \in {0, 1}
            /\ status[m] = 0 <=> sinceOK[m] > 0
            /\ status[m] = 1 <=> count[m] = 0

\* a monitor back at the head of its loop after two failures
C9_Witness ==
    \E m \in SITES :
        /\ pc[m] = "probe"
        /\ status[m] = 0
        /\ count[m] = 2
        /\ lastOK[m] # Empty

\* --------------------------------------------------------------- C10
\* what monitor o holds and has emitted
View(o) ==
    <<pc[o], status[o], count[o], lastOK[o], lastFAIL[o],
      error_duration[o], respcode[o], out[o]>>

\* C10: with two monitors, under every interleaving, a step of one
\* monitor (its probe result included) leaves the state and the output of
\* the other unchanged, and the downtime a failing monitor has computed
\* is its own counter times the interval.
C10_MonitorsIndependent ==
    /\ [][\A m \in SITES : \A o \in SITES \ {m} :
            (pc'[m] # pc[m] /\ mpc' = mpc) => View(o)' = View(o)]_vars
    /\ [](\A m \in SITES :
            (pc[m] \in {"probe", "sleep"} /\ status[m] = 0)
                => error_duration[m] = count[m] * interval)

\* one monitor is DOWN after two failures while the other is UP after a
\* success, each on its own results
C10_Witness ==
    \E m \in SITES : \E o \in SITES \ {m} :
        /\ CycleDone(m) /\ status[m] = 0 /\ count[m] = 2
        /\ CycleDone(o) /\ status[o] = 1 /\ lastOK[o] # Empty
        /\ error_duration[m] = 2 * interval
        /\ error_duration[o] = Empty

\* ------------------------------------------ reading the main shell
\* the steps of the latest command of the main shell, in order
Chans(events) == [i \in 1..Len(events) |-> events[i].chan]

\* how often a line stands in (the followed part of) a file
Occurrences(f, line) == Cardinality({i \in 1..Len(f) : f[i] = line})

\* the trap of line 59 has run
TrapRan == sigterm /\ mpc = "done"

\* the start-up of lines 37-52 has run and no monitor has written yet
JustStarted ==
    /\ mpc \in {"trap", "spawn"}
    /\ \A m \in SITES : pc[m] = "idle"

\* --------------------------------------------------------------- C11
\* C11: when a SIGTERM arrives while monitors run, the main shell writes
\* one shutdown line to the aggregate log, then ends every monitor, then
\* exits with status 0; a monitor that was ended issues no probe again.
C11_GracefulShutdown ==
    /\ [](TrapRan =>
            /\ Chans(mout) = <<"log", "send", "pkill", "exit">>
            /\ mout[1].msg = Shutdown
            /\ Occurrences(files[LOG_FILE], Shutdown) = 1
            /\ \A m \in SITES : pc[m] \in {"idle", "killed"}
            /\ exitcode = 0)
    /\ [][\A m \in SITES :
            (pc[m] = "killed" \/ mpc = "done")
                => pc'[m] = pc[m] /\ respcode'[m] = respcode[m]]_vars

\* the trap has ended two running monitors
C11_Witness ==
    /\ TrapRan
    /\ Cardinality(SITES) = 2
    /\ \A m \in SITES : cancelled[m] = "pkill"

\* --------------------------------------------------------------- C12
\* C12 (as stated): with flush_log_on_start set, every per-site log has
\* zero lines after the start-up, until its monitor writes to it.
C12_FlushedLogsEmpty ==
    \A m \in SITES :
        (flush_log_on_start = 1 /\ JustStarted)
            => files[logfile(m)] = << >>

\* --------------------------------------------------------------- C13
\* C13 (as stated): with flush_log_on_start 0, the start-up leaves the
\* aggregate log as it was plus the "started" record as its last line,
\* whichever of its writers comes first, and leaves every per-site log
\* unchanged.
C13_StartAppendsToAggregate ==
    (flush_log_on_start = 0 /\ JustStarted) =>
        /\ files[LOG_FILE] = files0[LOG_FILE] \o <<Started>>
        /\ \A m \in SITES : files[logfile(m)] = files0[logfile(m)]

C15_LoopNeverEndsByItself ==
    /\ [](\A m \in SITES : pc[m] = "killed" <=> cancelled[m] # "no")
    /\ [](mpc \in {"done", "dead"}
            => sigterm \/ \A m \in SITES : cancelled[m] = "kill")
    /\ \A m \in AllSites :
         [](pc[m] = "handle"
              => <>(pc[m] = "probe" \/ pc[m] = "killed" \/ now = TimeCap))

\* after an unreadable result the monitor is probing again
C15_Witness ==
    \E m \in SITES :
        /\ pc[m] = "probe"
        /\ respcode[m] = NonNumeric
        /\ sinceOK[m] = 1
        /\ cancelled[m] = "no"

\* --------------------------------------------------------------- C16
\* a line or a notification of the latest step is there twice
Repeated(m) ==
    \E i, j \in 1..Len(out[m]) :
        /\ i < j
        /\ out[m][i].chan = out[m][j].chan
        /\ out[m][i].msg = out[m][j].msg

\* C16: whether or not the appends and the deliveries of a cycle fail,
\* nothing is attempted twice, the monitor's state after the cycle is
\* the one the result alone determines, and the monitor goes to sleep.
C16_FailedWritesChangeNothing ==
    [][\A m \in SITES :
         (pc[m] = "handle" /\ pc'[m] # "handle" /\ cancelled'[m] = "no")
         => /\ status'[m] = IF respcode[m] = 200 THEN 1 ELSE 0
            /\ count'[m] = IF respcode[m] = 200 THEN 0 ELSE count[m] + 1
            /\ lastOK'[m] = IF respcode[m] = 200 THEN now ELSE lastOK[m]
            /\ lastFAIL'[m] =
                 IF respcode[m] # 200 /\ (count[m] + 1) % 12 = 0
                 THEN now ELSE lastFAIL[m]
            /\ pc'[m] = "sleep"
            /\ ~Repeated(m)']_vars

\* the ALERT of the 12th failure could neither be logged nor delivered
C16_Witness ==
    \E m \in SITES :
        /\ CycleDone(m)
        /\ count[m] = 12
        /\ lastFAIL[m] = now
        /\ \A i \in 1..Len(out[m]) : ~out[m][i].ok
        /\ \E i \in 1..Len(out[m]) : out[m][i].chan = "send"

\* --------------------------------------------------------------- C17
\* C17: one sitemon is started per site, all of them before the main
\* shell waits; the main shell is done only when no monitor runs; a
\* spawn never waits for a running monitor, and a monitor that has a
\* result can always handle it, whatever the other monitors are doing.
C17_OneTaskPerSite ==
    /\ \A m \in SITES : spawned[m] <= 1
    /\ mpc = "wait" => \A m \in SITES : spawned[m] = 1
    /\ mpc = "done" => \A m \in SITES : pc[m] \in {"idle", "killed"}
    /\ (mpc = "done" /\ ~sigterm) => \A m \in SITES : pc[m] = "killed"
    /\ \A m \in SITES :
        /\ (mpc = "spawn" /\ pc[m] = "idle") => ENABLED Spawn(m)
        /\ pc[m] = "handle" => ENABLED Handle(m)
        /\ pc[m] = "probe" => ENABLED Probe(m)

\* the main shell waits; one monitor has finished a cycle while the
\* other has not got the result of its first probe
C17_Witness ==
    \E m \in SITES : \E o \in SITES \ {m} :
        /\ mpc = "wait"
        /\ pc[m] = "probe" /\ lastOK[m] # Empty
        /\ pc[o] = "probe" /\ respcode[o] = NonNumeric /\ sinceOK[o] = 0

ExpectedLines(m) ==
    IF respcode[m] = 200
    THEN (IF status[m] = 0 /\ lastFAIL[m] # Empty
          THEN <<"LASTFAIL">> ELSE << >>) \o <<"OK">>
    ELSE (IF count[m] < 4 THEN <<"FAIL">> ELSE << >>)
         \o (IF (count[m] + 1) % 12 = 0 THEN <<"ALERT">> ELSE << >>)

LogKinds(events) ==
    LET ls == SelectSeq(events, LAMBDA e : e.chan = "log")
    IN [i \in 1..Len(ls) |-> ls[i].msg.kind]

Shape(e) == <<e.chan, e.msg.kind, e.st>>

\* C21: a cycle that reports a recovery emits, in this order, the recovery
\* line to the log, the same text to the notification function, the "back
\* online" notification (all three while the status is still DOWN, and both
\* notifications with the downtime of the line), and last the "response OK"
\* line while the status is UP, which is not sent; the two notifications
\* are posted exactly when notifications are enabled.
C21_RecoverySendsTwoInOrder ==
    \A m \in SITES :
        (CycleDone(m) /\ Lines(m, "LASTFAIL") # << >>)
            => /\ status[m] = 1
               /\ [i \in 1..Len(out[m]) |-> Shape(out[m][i])]
                     = << <<"log", "LASTFAIL", 0>>, <<"send", "LASTFAIL", 0>>,
                          <<"send", "BACK", 0>>, <<"log", "OK", 1>> >>
               /\ MirroredAt(m, 1)
               /\ out[m][3].msg.dur = out[m][1].msg.dur
               /\ Len(Sends(m)) = 2
               /\ \A i \in 1..2 : Sends(m)[i].posted <=> disable_telegram = 0

\* a recovery after an ALERT, with notifications enabled: both are posted
C21_Witness ==
    \E m \in SITES :
        /\ CycleDone(m)
        /\ disable_telegram = 0
        /\ Len(Lines(m, "LASTFAIL")) = 1
        /\ Len(Sends(m)) = 2
        /\ Sends(m)[1].posted /\ Sends(m)[2].posted
        /\ out[m][Len(out[m])].msg.kind = "OK"
====
